---- MODULE Spec2Model ----
(***************************************************************************)
(* Model of the chat-relay backend (Express handlers over a hosted store   *)
(* and a hosted text-generation endpoint).                                 *)
(*                                                                         *)
(* Every `await` of a handler is a step boundary: between two awaits of    *)
(* one request any step of another request may run.  The store is the two  *)
(* tables the code addresses, chat_sessions and chat_messages; every store *)
(* call either applies or returns an error, and the code performs no       *)
(* referential check of its own.                                           *)
(***************************************************************************)
EXTENDS Integers, Sequences, FiniteSets, TLC

\* ------------------------------------------------------------------ bounds
\* Number of completed turns already stored when SpecLoaded starts.
PreloadTurns == 5

\* Concurrent POST /chat requests in flight.
Turns == {"t1", "t2"}

\* Callers.
Users == {"u1", "u2"}

\* The message body each request carries (a sequence of characters): bodies
\* are labels the code never inspects beyond their length and emptiness.
MsgOf(t) == IF t = "t1" THEN <<"a">> ELSE <<"b">>

\* The callers each request may come from; the code treats user ids alike, so
\* the first request is taken to come from "u1".
UsersOf(t) == IF t = "t1" THEN {"u1"} ELSE Users

\* ------------------------------------------------------- program constants
\* `chatId = null` default of the request body; also a null chatSession.
Null == 0

\* A missing or empty userId.
NoUser == ""

\* A missing or empty message.
NoMsg == <<>>

\* getChatHistory(chatSession.id, 10)
HistoryLimit == 10

\* chatHistory.slice(-10)
PromptWindow == 10

\* message.length > 50 ? message.substring(0, 50) + "..." : message
TitleLimit == 50

Ellipsis == <<".", ".", ".">>

\* candidate?.content?.parts?.[0]?.text || "Sorry, I couldn't generate a response."
FallbackReply == <<"Sorry, I couldn't generate a response.">>

\* The text of a generated candidate.
AiText == <<"r">>

VARIABLES
    sessions,     \* chat_sessions: id -> [user_id, title, created_at, updated_at]
    messages,     \* chat_messages in insertion order
    nextId,       \* next id the store issues for a session row
    clock,        \* source of created_at / updated_at / new Date()
    pc,           \* per request: position in app.post("/chat")
    req,          \* per request: req.body
    chatSession,  \* per request: chatSession.id, or Null
    created,      \* per request: id of the session row this request inserted
    chatHistory,  \* per request: result of getChatHistory
    aiResponse,   \* per request: aiResponse
    touchTs,      \* per request: new Date() taken by updateChatSession
    log,          \* per request: the calls made so far, in order
    resp,         \* per request: the response sent
    genSeen,      \* per request: what the generation endpoint answered
    dpc,          \* position in app.delete("/chat-sessions/:chatId")
    dreq,         \* req.params.chatId of the delete request
    dresp,        \* the response of the delete request
    dsender,      \* who sent the delete request (the request does not say)
    gpc,          \* position in app.get("/chat-sessions/:userId") or
                  \* app.get("/chat-messages/:chatId")
    greq,         \* req.params.userId or req.params.chatId of the get request
    gresp,        \* the response of the get request
    arg,          \* argument handed to a helper called on its own
    ret,          \* what the helper returned
    currentChatId, \* client: currentChatId
    isLoading,    \* client: isLoading
    view,         \* client: which conversation is on screen (counts the
                  \* calls of startNewChat and switchToChat)
    screen,       \* client: messages, each entry with the conversation it
                  \* belongs to
    sending,      \* client: the sendMessage call in flight and its closure
    loading,      \* client: the loadChatMessages call in flight
    sent          \* client: the number of sendMessage calls so far

vars == <<sessions, messages, nextId, clock, pc, req, chatSession, created,
          chatHistory, aiResponse, touchTs, log, resp, genSeen, dpc, dreq,
          dresp, dsender, gpc, greq, gresp, arg, ret, currentChatId,
          isLoading, view, screen, sending, loading, sent>>

storeVars == <<sessions, messages, nextId, clock>>
delVars == <<dpc, dreq, dresp, dsender>>
getVars == <<gpc, greq, gresp>>
fnVars == <<arg, ret>>
clientVars == <<currentChatId, isLoading, view, screen, sending, loading, sent>>

NoResp == [status |-> 0]
NoReq == [userId |-> NoUser, message |-> NoMsg, chatId |-> Null]
NoGen == [fault |-> "uncalled"]
NoGet == [userId |-> NoUser, chatId |-> Null]

\* ---------------------------------------------------------- pure helpers
Max(a, b) == IF a > b THEN a ELSE b

\* Mutant: slice(0, n), the first n entries.
SliceLast_FromStart(s, n) == SubSeq(s, 1, IF Len(s) < n THEN Len(s) ELSE n)

\* Array.prototype.slice(-n)
SliceLast(s, n) == SubSeq(s, Max(1, Len(s) - n + 1), Len(s))

\* .limit(n)
Limit(s, n) == SubSeq(s, 1, IF Len(s) < n THEN Len(s) ELSE n)

\* .order("created_at", { ascending: true }), ties in insertion order: the
\* row at position i moves behind the rows that sort before it.
OrderByCreatedAt(s) ==
    LET Before(j, i) == \/ s[j].created_at < s[i].created_at
                        \/ s[j].created_at = s[i].created_at /\ j < i
        Rank(i) == Cardinality({j \in 1..Len(s) : Before(j, i)}) + 1
    IN  [k \in 1..Len(s) |-> s[CHOOSE i \in 1..Len(s) : Rank(i) = k]]

\* Mutant: the read sees only the rows of user messages.
MessagesOf_UserRowsOnly(msgs, chatId) ==
    SelectSeq(msgs, LAMBDA m : m.chat_id = chatId /\ m.role = "user")

\* .from("chat_messages").eq("chat_id", chatId)
MessagesOf(msgs, chatId) == SelectSeq(msgs, LAMBDA m : m.chat_id = chatId)

\* Mutant: the check forgets the message.
MissingFields_UserOnly(userId, message) == userId = NoUser

\* if (!userId || !message)
MissingFields(userId, message) == userId = NoUser \/ message = NoMsg

\* Mutant: the handler passes no title to getOrCreateChatSession.
DeriveTitle_Untitled(message) == NoMsg

\* Mutant: the comparison is message.length >= 50.
DeriveTitle_Inclusive(message) ==
    IF Len(message) >= TitleLimit
    THEN SubSeq(message, 1, TitleLimit) \o Ellipsis
    ELSE message

\* message.length > 50 ? message.substring(0, 50) + "..." : message
DeriveTitle(message) ==
    IF Len(message) > TitleLimit
    THEN SubSeq(message, 1, TitleLimit) \o Ellipsis
    ELSE message

\* Mutant: the lookup drops .eq("user_id", userId).
LookupSession_AnyOwner(sess, chatId, userId) ==
    IF chatId \in DOMAIN sess THEN chatId ELSE Null

\* .from("chat_sessions").eq("id", chatId).eq("user_id", userId).single()
LookupSession(sess, chatId, userId) ==
    IF chatId \in DOMAIN sess /\ sess[chatId].user_id = userId
    THEN chatId ELSE Null

\* .eq("user_id", userId).order("updated_at", { ascending: false }).limit(1)
MostRecentSession(sess, userId) ==
    LET own == {i \in DOMAIN sess : sess[i].user_id = userId}
    IN  IF own = {} THEN Null
        ELSE CHOOSE i \in own : \A j \in own : sess[j].updated_at <= sess[i].updated_at

\* .select("role, content, created_at")
SelectColumns(rows) ==
    [i \in 1..Len(rows) |->
        [role |-> rows[i].role, content |-> rows[i].content,
         created_at |-> rows[i].created_at]]

\* getChatHistory: select role, content, created_at ... order ... limit
getChatHistory(msgs, chatId, limit) ==
    LET rows == Limit(OrderByCreatedAt(MessagesOf(msgs, chatId)), limit)
    IN  SelectColumns(rows)

\* buildContextPrompt: the prompt as the sequence of pieces it concatenates
RoleLabel(role) == IF role = "user" THEN "User" ELSE "Assistant"

buildContextPrompt(currentMessage, history) ==
    LET recentHistory == SliceLast(history, PromptWindow)
    IN  IF Len(history) > 0
        THEN <<"preamble", "history-header">>
             \o [i \in 1..Len(recentHistory) |->
                    <<RoleLabel(recentHistory[i].role), recentHistory[i].content>>]
             \o <<"context-instruction", currentMessage>>
        ELSE <<"preamble", "plain-instruction", currentMessage>>

\* saveMessage: the row the insert adds
NewMessage(chatId, role, content, now) ==
    [chat_id |-> chatId, role |-> role, content |-> content, created_at |-> now]

\* getOrCreateChatSession: the row the insert adds
NewSession(userId, title, now) ==
    [user_id |-> userId, title |-> IF title = NoMsg THEN <<"New Chat">> ELSE title,
     created_at |-> now, updated_at |-> now]

\* ------------------------------------------------- generation endpoint
\* What fetch(geminiUrl) and response.json() can hand back to the handler:
\*   fault  the call or the JSON parse throws
\*   ok     response.ok
\*   err    data.error and what data.error.message contains
\*   cand   data.candidates and its first element
GenResponses ==
    {[fault |-> f, ok |-> FALSE, err |-> "absent", cand |-> "missing"] :
        f \in {"network", "badjson"}}
    \cup {[fault |-> "none", ok |-> TRUE, err |-> "absent", cand |-> c] :
        c \in {"missing", "empty", "SAFETY", "text", "notext"}}
    \cup {[fault |-> "none", ok |-> FALSE, err |-> e, cand |-> c] :
        e \in {"absent", "nomessage", "emptymessage", "API key", "quota",
               "API key and quota", "other"},
        c \in {"missing", "text"}}

\* The responses the concurrent specification draws from: a reply, a
\* safety-filtered candidate and a refused call.
CoreResponses ==
    {r \in GenResponses :
        /\ r.fault = "none"
        /\ r.ok => r.cand \in {"text", "SAFETY"}
        /\ ~r.ok => r.err = "quota" /\ r.cand = "missing"}

IncludesApiKey(e) == e \in {"API key", "API key and quota"}
IncludesQuota(e) == e \in {"quota", "API key and quota"}

\* Mutant: "quota" is looked for before "API key".
GenerationError_QuotaFirst(r) ==
    IF r.fault # "none" THEN r.fault
    ELSE IF ~r.ok THEN
        IF r.err = "absent" THEN "HTTP status"
        ELSE IF r.err = "nomessage" THEN "TypeError"
        ELSE IF IncludesQuota(r.err)
             THEN "API quota exceeded. Please check your Gemini API usage."
        ELSE IF IncludesApiKey(r.err)
             THEN "Invalid or expired API key. Please check your Gemini API key."
        ELSE IF r.err = "emptymessage" THEN "Gemini API error"
        ELSE r.err
    ELSE IF r.cand \in {"missing", "empty"}
         THEN "No response generated by Gemini API"
    ELSE IF r.cand = "SAFETY"
         THEN "Content was filtered for safety reasons. Please try rephrasing your message."
    ELSE ""

\* Mutant: the checks of data.candidates and of finishReason are missing.
GenerationError_StatusOnly(r) ==
    IF r.fault # "none" THEN r.fault
    ELSE IF ~r.ok THEN
        IF r.err = "absent" THEN "HTTP status"
        ELSE IF r.err = "nomessage" THEN "TypeError"
        ELSE IF IncludesApiKey(r.err)
             THEN "Invalid or expired API key. Please check your Gemini API key."
        ELSE IF IncludesQuota(r.err)
             THEN "API quota exceeded. Please check your Gemini API usage."
        ELSE IF r.err = "emptymessage" THEN "Gemini API error"
        ELSE r.err
    ELSE ""

\* The message of the Error the validation of the generation response throws,
\* "" when it throws nothing.
GenerationError(r) ==
    IF r.fault # "none" THEN r.fault
    ELSE IF ~r.ok THEN
        IF r.err = "absent" THEN "HTTP status"
        ELSE IF r.err = "nomessage" THEN "TypeError"
        ELSE IF IncludesApiKey(r.err)
             THEN "Invalid or expired API key. Please check your Gemini API key."
        ELSE IF IncludesQuota(r.err)
             THEN "API quota exceeded. Please check your Gemini API usage."
        ELSE IF r.err = "emptymessage" THEN "Gemini API error"
        ELSE r.err
    ELSE IF r.cand \in {"missing", "empty"}
         THEN "No response generated by Gemini API"
    ELSE IF r.cand = "SAFETY"
         THEN "Content was filtered for safety reasons. Please try rephrasing your message."
    ELSE ""

\* Mutant: the text is taken as it is, without the || fallback.
ExtractReply_NoFallback(r) == IF r.cand = "text" THEN AiText ELSE <<>>

\* candidate?.content?.parts?.[0]?.text || "Sorry, I couldn't generate a response."
ExtractReply(r) == IF r.cand = "text" THEN AiText ELSE FallbackReply

\* ------------------------------------------------------------ responses
BadRequest == [status |-> 400, error |-> "userId and message are required"]
SessionFailure == [status |-> 500, error |-> "Failed to create/get chat session"]
InternalError(details) ==
    [status |-> 500, error |-> "Internal server error", details |-> details]
ChatReply(reply, chatId, history) ==
    [status |-> 200, reply |-> reply, chatId |-> chatId,
     contextUsed |-> Len(history) > 0]

\* Mutant: the handler goes on without a session.
NoSession_Ignored(cs) == FALSE

\* if (!chatSession) return res.status(500)...
NoSession(cs) == cs = Null

\* Mutant: an error of saveMessage or getChatHistory ends the handler.
AfterCall_AbortOnError(call, ok) ==
    IF ~ok /\ call # "touch" THEN "done"
    ELSE IF call = "resolve" THEN "saveUser"
    ELSE IF call = "saveUser" THEN "history"
    ELSE IF call = "history" THEN "generate"
    ELSE IF call = "saveBot" THEN "touch"
    ELSE "done"

\* Mutant: a failed saveMessage is called again.
AfterCall_RetryWrite(call, ok) ==
    IF ~ok /\ call \in {"saveUser", "saveBot"} THEN call
    ELSE IF call = "resolve" THEN "saveUser"
    ELSE IF call = "saveUser" THEN "history"
    ELSE IF call = "history" THEN "generate"
    ELSE IF call = "saveBot" THEN "touch"
    ELSE "done"

\* Mutant: the history is read before the user message is saved.
AfterCall_HistoryFirst(call, ok) ==
    IF call = "resolve" THEN "history"
    ELSE IF call = "history" THEN "saveUser"
    ELSE IF call = "saveUser" THEN "generate"
    ELSE IF call = "saveBot" THEN "touch"
    ELSE "done"

\* Where the handler stands after the session is resolved ("resolve") and
\* after a helper's store call: saveMessage, getChatHistory and
\* updateChatSession catch and log every error and the handler never reads
\* what they return, so `ok` does not matter.
AfterCall(call, ok) ==
    IF call = "resolve" THEN "saveUser"
    ELSE IF call = "saveUser" THEN "history"
    ELSE IF call = "history" THEN "generate"
    ELSE IF call = "saveBot" THEN "touch"
    ELSE "done"

\* ------------------------------------------------------------ initial state
\* No request has arrived.
NoRequests ==
    /\ pc = [t \in Turns |-> "idle"]
    /\ req = [t \in Turns |-> NoReq]
    /\ chatSession = [t \in Turns |-> Null]
    /\ created = [t \in Turns |-> Null]
    /\ chatHistory = [t \in Turns |-> <<>>]
    /\ aiResponse = [t \in Turns |-> <<>>]
    /\ touchTs = [t \in Turns |-> 0]
    /\ log = [t \in Turns |-> <<>>]
    /\ resp = [t \in Turns |-> NoResp]
    /\ genSeen = [t \in Turns |-> NoGen]
    /\ dpc = "idle"
    /\ dreq = Null
    /\ dresp = NoResp
    /\ dsender = NoUser
    /\ gpc = "idle"
    /\ greq = NoGet
    /\ gresp = NoResp

NoSend == [pc |-> "idle", chatId |-> Null, view |-> 0]
NoLoad == [chatId |-> Null, view |-> 0]

\* { role: "bot", message: "Hello! I'm your AI assistant. ..." }
Greeting(v) == [role |-> "bot", kind |-> "greeting", view |-> v]

\* The client after its mount effect: loadChatSessions(); startNewChat().
ClientMounted ==
    /\ currentChatId = Null
    /\ isLoading = FALSE
    /\ view = 1
    /\ screen = <<Greeting(1)>>
    /\ sending = NoSend
    /\ loading = NoLoad
    /\ sent = 0

\* No helper is called on its own.
NoCall ==
    /\ arg = <<>>
    /\ ret = <<>>

\* The store before any request.
EmptyStore ==
    /\ sessions = <<>>
    /\ messages = <<>>
    /\ nextId = 1
    /\ clock = 1

Init ==
    /\ EmptyStore
    /\ NoRequests
    /\ ClientMounted
    /\ NoCall

\* Ids the store has issued so far: the ones a caller can know.
IssuedIds == 1..(nextId - 1)

\* Request bodies of POST /chat.
ChatRequests(t) ==
    [userId : UsersOf(t) \cup {NoUser}, message : {MsgOf(t), NoMsg},
     chatId : IssuedIds \cup {Null}]

\* The handler has returned: its locals are gone.
DropLocals(t) ==
    /\ chatHistory' = [chatHistory EXCEPT ![t] = <<>>]
    /\ aiResponse' = [aiResponse EXCEPT ![t] = <<>>]
    /\ touchTs' = [touchTs EXCEPT ![t] = 0]

\* ------------------------------------------------------ app.post("/chat")
\* if (!userId || !message) return res.status(400)...
ChatInvalid(t) ==
    /\ pc[t] = "idle"
    /\ \E r \in ChatRequests(t) :
        /\ MissingFields(r.userId, r.message)
        /\ req' = [req EXCEPT ![t] = r]
    /\ resp' = [resp EXCEPT ![t] = BadRequest]
    /\ log' = [log EXCEPT ![t] = Append(@, "respond")]
    /\ pc' = [pc EXCEPT ![t] = "done"]
    /\ UNCHANGED <<storeVars, delVars, getVars, fnVars, clientVars, chatSession, created, chatHistory,
                   aiResponse, touchTs, genSeen>>

\* if (chatId) { chatSession = (select ... single()).data }
ChatLookup(t) ==
    /\ pc[t] = "idle"
    /\ \E r \in ChatRequests(t) :
        /\ ~MissingFields(r.userId, r.message)
        /\ r.chatId # Null
        /\ req' = [req EXCEPT ![t] = r]
        /\ \/ chatSession' = [chatSession EXCEPT ![t] =
                  LookupSession(sessions, r.chatId, r.userId)]
           \/ chatSession' = [chatSession EXCEPT ![t] = Null]
    /\ log' = [log EXCEPT ![t] = Append(@, "lookup")]
    /\ pc' = [pc EXCEPT ![t] = IF chatSession'[t] # Null THEN AfterCall("resolve", TRUE)
                                ELSE "getOrCreate"]
    /\ UNCHANGED <<storeVars, delVars, getVars, fnVars, clientVars, created, chatHistory, aiResponse,
                   touchTs, resp, genSeen>>

\* if (!chatSession) chatSession = await getOrCreateChatSession(userId, title);
\* if (!chatSession) return res.status(500)...
\* The select of getOrCreateChatSession runs only for an empty title; a select
\* that finds nothing is followed by the insert.
GetOrCreate(t, r) ==
    LET title == DeriveTitle(r.message)
        recent == MostRecentSession(sessions, r.userId)
        finish(cs) ==
            /\ chatSession' = [chatSession EXCEPT ![t] = cs]
            /\ IF NoSession(cs)
               THEN /\ resp' = [resp EXCEPT ![t] = SessionFailure]
                    /\ log' = [log EXCEPT ![t] = @ \o <<"getOrCreate", "respond">>]
                    /\ pc' = [pc EXCEPT ![t] = "done"]
               ELSE /\ log' = [log EXCEPT ![t] = Append(@, "getOrCreate")]
                    /\ pc' = [pc EXCEPT ![t] = AfterCall("resolve", TRUE)]
                    /\ UNCHANGED resp
    IN  /\ \/ IF title = NoMsg /\ recent # Null
              THEN /\ finish(recent)
                   /\ UNCHANGED <<storeVars, created>>
              ELSE /\ sessions' = [i \in DOMAIN sessions \cup {nextId} |->
                          IF i = nextId THEN NewSession(r.userId, title, clock)
                          ELSE sessions[i]]
                   /\ nextId' = nextId + 1
                   /\ clock' = clock + 1
                   /\ created' = [created EXCEPT ![t] = nextId]
                   /\ finish(nextId)
                   /\ UNCHANGED messages
           \/ /\ finish(Null)
              /\ UNCHANGED <<storeVars, created>>
        /\ UNCHANGED <<delVars, getVars, fnVars, clientVars, chatHistory, aiResponse, touchTs, genSeen>>

\* A request without chatId goes straight to getOrCreateChatSession.
ChatNew(t) ==
    /\ pc[t] = "idle"
    /\ \E r \in ChatRequests(t) :
        /\ ~MissingFields(r.userId, r.message)
        /\ r.chatId = Null
        /\ req' = [req EXCEPT ![t] = r]
        /\ GetOrCreate(t, r)

\* A request whose chatId did not resolve.
ChatGetOrCreate(t) ==
    /\ pc[t] = "getOrCreate"
    /\ GetOrCreate(t, req[t])
    /\ UNCHANGED req

\* await saveMessage(chatSession.id, "user", message);
ChatSaveUser(t) ==
    /\ pc[t] = "saveUser"
    /\ \/ /\ messages' = Append(messages,
                 NewMessage(chatSession[t], "user", req[t].message, clock))
          /\ clock' = clock + 1
          /\ pc' = [pc EXCEPT ![t] = AfterCall("saveUser", TRUE)]
       \/ /\ UNCHANGED <<messages, clock>>
          /\ pc' = [pc EXCEPT ![t] = AfterCall("saveUser", FALSE)]
    /\ log' = [log EXCEPT ![t] = Append(@, "saveUser")]
    /\ UNCHANGED <<sessions, nextId, delVars, getVars, fnVars, clientVars, req, chatSession, created,
                   chatHistory, aiResponse, touchTs, resp, genSeen>>

\* const chatHistory = await getChatHistory(chatSession.id, 10);
ChatHistory(t) ==
    /\ pc[t] = "history"
    /\ \/ /\ chatHistory' = [chatHistory EXCEPT ![t] = <<>>]
          /\ pc' = [pc EXCEPT ![t] = AfterCall("history", FALSE)]
       \/ /\ chatHistory' = [chatHistory EXCEPT ![t] =
                 getChatHistory(messages, chatSession[t], HistoryLimit)]
          /\ pc' = [pc EXCEPT ![t] = AfterCall("history", TRUE)]
    /\ log' = [log EXCEPT ![t] = Append(@, "history")]
    /\ UNCHANGED <<storeVars, delVars, getVars, fnVars, clientVars, req, chatSession, created, aiResponse,
                   touchTs, resp, genSeen>>

\* fetch(geminiUrl), response.json(), the checks of the response, the catch
Generate(t, R) ==
    /\ pc[t] = "generate"
    /\ \E r \in R :
        /\ genSeen' = [genSeen EXCEPT ![t] = r]
        /\ IF GenerationError(r) # ""
           THEN /\ resp' = [resp EXCEPT ![t] = InternalError(GenerationError(r))]
                /\ log' = [log EXCEPT ![t] = @ \o <<"generate", "respond">>]
                /\ pc' = [pc EXCEPT ![t] = "done"]
                /\ DropLocals(t)
           ELSE /\ aiResponse' = [aiResponse EXCEPT ![t] = ExtractReply(r)]
                /\ log' = [log EXCEPT ![t] = Append(@, "generate")]
                /\ pc' = [pc EXCEPT ![t] = "saveBot"]
                /\ UNCHANGED <<resp, chatHistory, touchTs>>
    /\ UNCHANGED <<storeVars, delVars, getVars, fnVars, clientVars, req, chatSession, created>>

ChatGenerate(t) == Generate(t, CoreResponses)

ChatGenerateAny(t) == Generate(t, GenResponses)

\* await saveMessage(chatSession.id, "bot", aiResponse); then updateChatSession
\* takes new Date() before its update reaches the store.
ChatSaveBot(t) ==
    /\ pc[t] = "saveBot"
    /\ \/ /\ messages' = Append(messages,
                 NewMessage(chatSession[t], "bot", aiResponse[t], clock))
          /\ touchTs' = [touchTs EXCEPT ![t] = clock + 1]
          /\ clock' = clock + 2
          /\ pc' = [pc EXCEPT ![t] = AfterCall("saveBot", TRUE)]
       \/ /\ touchTs' = [touchTs EXCEPT ![t] = clock]
          /\ clock' = clock + 1
          /\ pc' = [pc EXCEPT ![t] = AfterCall("saveBot", FALSE)]
          /\ UNCHANGED messages
    /\ log' = [log EXCEPT ![t] = Append(@, "saveBot")]
    /\ UNCHANGED <<sessions, nextId, delVars, getVars, fnVars, clientVars, req, chatSession, created,
                   chatHistory, aiResponse, resp, genSeen>>

\* .update({ updated_at }).eq("id", chatId); res.json({ reply, chatId, contextUsed })
ChatTouch(t) ==
    /\ pc[t] = "touch"
    /\ \/ /\ sessions' = [i \in DOMAIN sessions |->
                 IF i = chatSession[t]
                 THEN [sessions[i] EXCEPT !.updated_at = touchTs[t]]
                 ELSE sessions[i]]
          /\ pc' = [pc EXCEPT ![t] = AfterCall("touch", TRUE)]
       \/ /\ UNCHANGED sessions
          /\ pc' = [pc EXCEPT ![t] = AfterCall("touch", FALSE)]
    /\ resp' = [resp EXCEPT ![t] =
           ChatReply(aiResponse[t], chatSession[t], chatHistory[t])]
    /\ log' = [log EXCEPT ![t] = @ \o <<"touch", "respond">>]
    /\ DropLocals(t)
    /\ UNCHANGED <<messages, nextId, clock, delVars, getVars, fnVars, clientVars, req, chatSession, created,
                   genSeen>>

\* --------------------------------- app.delete("/chat-sessions/:chatId")
\* await supabase.from("chat_messages").delete().eq("chat_id", chatId);
DeleteMessages ==
    /\ dpc = "idle"
    /\ \E c \in IssuedIds, u \in Users :
        /\ dreq' = c
        /\ dsender' = u
        /\ \/ messages' = SelectSeq(messages, LAMBDA m : m.chat_id # c)
           \/ UNCHANGED messages
    /\ dpc' = "deleteSession"
    /\ UNCHANGED <<sessions, nextId, clock, pc, req, chatSession, created,
                   chatHistory, aiResponse, touchTs, log, resp, genSeen, dresp,
                   getVars, fnVars, clientVars>>

\* const { error } = ...from("chat_sessions").delete().eq("id", chatId);
DeleteSession ==
    /\ dpc = "deleteSession"
    /\ \/ /\ sessions' = [i \in DOMAIN sessions \ {dreq} |-> sessions[i]]
          /\ dresp' = [status |-> 200, message |-> "Chat session deleted successfully"]
       \/ /\ dresp' = [status |-> 500, error |-> "Failed to delete chat session"]
          /\ UNCHANGED sessions
    /\ dpc' = "done"
    /\ UNCHANGED <<messages, nextId, clock, pc, req, chatSession, created,
                   chatHistory, aiResponse, touchTs, log, resp, genSeen, dreq,
                   dsender, getVars, fnVars, clientVars>>

\* ---------- app.get("/chat-sessions/:userId"), app.get("/chat-messages/:chatId")
\* .eq("user_id", userId).order("updated_at", { ascending: false }): the ids of
\* the user's rows, latest updated_at first (equal stamps by id)
RECURSIVE ByUpdatedAtDesc(_, _)
ByUpdatedAtDesc(sess, ids) ==
    IF ids = {} THEN <<>>
    ELSE LET top == CHOOSE i \in ids : \A j \in ids :
                        \/ sess[j].updated_at < sess[i].updated_at
                        \/ sess[j].updated_at = sess[i].updated_at /\ j >= i
         IN  <<top>> \o ByUpdatedAtDesc(sess, ids \ {top})

SessionsOf(sess, userId) ==
    LET ids == ByUpdatedAtDesc(sess, {i \in DOMAIN sess : sess[i].user_id = userId})
    IN  [k \in 1..Len(ids) |-> [id |-> ids[k], row |-> sess[ids[k]]]]

\* Mutant: the catch block logs the error and sends nothing.
FetchAnswer_SilentOnError(ok, rows, failure) ==
    IF ok THEN [status |-> 200, body |-> rows] ELSE NoResp

\* if (error) throw ...; res.json(data || []); catch: res.status(500).json(...)
FetchAnswer(ok, rows, failure) ==
    IF ok THEN [status |-> 200, body |-> rows]
    ELSE [status |-> 500, error |-> failure]

\* GET /chat-sessions/:userId arrives and issues its query.
GetSessions ==
    /\ gpc = "idle"
    /\ \E u \in Users : greq' = [NoGet EXCEPT !.userId = u]
    /\ gpc' = "sessions"
    /\ UNCHANGED <<storeVars, pc, req, chatSession, created, chatHistory,
                   aiResponse, touchTs, log, resp, genSeen, delVars, gresp,
                   fnVars, clientVars>>

\* The query returns rows or an error; the handler answers.
GetSessionsAnswer ==
    /\ gpc = "sessions"
    /\ \E ok \in BOOLEAN :
        gresp' = FetchAnswer(ok, SessionsOf(sessions, greq.userId),
                             "Failed to fetch chat sessions")
    /\ gpc' = "done"
    /\ UNCHANGED <<storeVars, pc, req, chatSession, created, chatHistory,
                   aiResponse, touchTs, log, resp, genSeen, delVars, greq,
                   fnVars, clientVars>>

\* GET /chat-messages/:chatId arrives and issues its query.
GetMessages ==
    /\ gpc = "idle"
    /\ \E c \in IssuedIds : greq' = [NoGet EXCEPT !.chatId = c]
    /\ gpc' = "messages"
    /\ UNCHANGED <<storeVars, pc, req, chatSession, created, chatHistory,
                   aiResponse, touchTs, log, resp, genSeen, delVars, gresp,
                   fnVars, clientVars>>

GetMessagesAnswer ==
    /\ gpc = "messages"
    /\ \E ok \in BOOLEAN :
        gresp' = FetchAnswer(ok, OrderByCreatedAt(MessagesOf(messages, greq.chatId)),
                             "Failed to fetch chat messages")
    /\ gpc' = "done"
    /\ UNCHANGED <<storeVars, pc, req, chatSession, created, chatHistory,
                   aiResponse, touchTs, log, resp, genSeen, delVars, greq,
                   fnVars, clientVars>>

Next ==
    \/ \E t \in Turns :
        \/ ChatInvalid(t)
        \/ ChatLookup(t)
        \/ ChatNew(t)
        \/ ChatGetOrCreate(t)
        \/ ChatSaveUser(t)
        \/ ChatHistory(t)
        \/ ChatGenerate(t)
        \/ ChatSaveBot(t)
        \/ ChatTouch(t)
    \/ DeleteMessages
    \/ DeleteSession

Spec == Init /\ [][Next]_vars

\* ------------------------------------------- a store that already holds turns
\* The store after PreloadTurns successful turns of "u1" on one session, the
\* first of them sent without chatId: one session row and, per turn, a user
\* message, a bot message and a touch of updated_at.
LoadedMessages ==
    [i \in 1..(2 * PreloadTurns) |->
        IF i % 2 = 1
        THEN NewMessage(1, "user", <<"a">>, 3 * ((i + 1) \div 2) - 1)
        ELSE NewMessage(1, "bot", AiText, 3 * (i \div 2))]

InitLoaded ==
    /\ sessions = [i \in {1} |->
           [NewSession("u1", DeriveTitle(<<"a">>), 1)
               EXCEPT !.updated_at = 3 * PreloadTurns + 1]]
    /\ messages = LoadedMessages
    /\ nextId = 2
    /\ clock = 3 * PreloadTurns + 2
    /\ NoRequests
    /\ ClientMounted
    /\ NoCall

\* One request of "u1" and one delete, with every answer the generation
\* endpoint can give.
NextLoaded ==
    \/ ChatInvalid("t1")
    \/ ChatLookup("t1")
    \/ ChatNew("t1")
    \/ ChatGetOrCreate("t1")
    \/ ChatSaveUser("t1")
    \/ ChatHistory("t1")
    \/ ChatGenerateAny("t1")
    \/ ChatSaveBot("t1")
    \/ ChatTouch("t1")
    \/ DeleteMessages
    \/ DeleteSession

SpecLoaded == InitLoaded /\ [][NextLoaded]_vars

\* ------------------------------------- two turns over the preloaded store
\* Two requests and no delete, over the store that already holds a session
\* of PreloadTurns turns.
NextTurns ==
    \E t \in Turns :
        \/ ChatInvalid(t)
        \/ ChatLookup(t)
        \/ ChatNew(t)
        \/ ChatGetOrCreate(t)
        \/ ChatSaveUser(t)
        \/ ChatHistory(t)
        \/ ChatGenerate(t)
        \/ ChatSaveBot(t)
        \/ ChatTouch(t)

SpecLoadedTurns == InitLoaded /\ [][NextTurns]_vars

\* ------------------------------------------------- the title on its own
\* Messages of 1 to TitleLimit + TitleSlack characters; the characters cycle
\* through Alphabet from any starting point, so a prefix is told from a suffix.
TitleSlack == 3

Alphabet == <<"a", "b", "c">>

TextOf(n, k) == [i \in 1..n |-> Alphabet[((i + k) % Len(Alphabet)) + 1]]

TitleInputs ==
    {TextOf(n, k) : n \in 1..(TitleLimit + TitleSlack), k \in 1..Len(Alphabet)}

InitTitle ==
    /\ EmptyStore
    /\ NoRequests
    /\ ClientMounted
    /\ arg \in TitleInputs
    /\ ret = <<>>

\* const title = message.length > 50 ? ... : message;
CallDeriveTitle ==
    /\ ret = <<>>
    /\ ret' = DeriveTitle(arg)
    /\ UNCHANGED <<storeVars, pc, req, chatSession, created, chatHistory,
                   aiResponse, touchTs, log, resp, genSeen, delVars, getVars,
                   arg, clientVars>>

SpecTitle == InitTitle /\ [][CallDeriveTitle]_vars

\* ------------------------------------------------ the prompt on its own
\* Histories of 0 to PromptWindow + PromptSlack rows; row i carries <<i>> as
\* its content, and the roles cycle through Roles from any starting point.
PromptSlack == 2

Roles == <<"user", "bot", "system">>

HistoryOf(n, k) ==
    [i \in 1..n |-> [role |-> Roles[((i + k) % Len(Roles)) + 1],
                     content |-> <<i>>, created_at |-> i]]

PromptInputs ==
    {[message |-> m, history |-> HistoryOf(n, k)] :
        m \in {<<"a">>, <<"b">>}, n \in 0..(PromptWindow + PromptSlack),
        k \in 1..Len(Roles)}

InitPrompt ==
    /\ EmptyStore
    /\ NoRequests
    /\ ClientMounted
    /\ arg \in PromptInputs
    /\ ret = <<>>

\* const contextPrompt = buildContextPrompt(message, chatHistory);
CallBuildContextPrompt ==
    /\ ret = <<>>
    /\ ret' = buildContextPrompt(arg.message, arg.history)
    /\ UNCHANGED <<storeVars, pc, req, chatSession, created, chatHistory,
                   aiResponse, touchTs, log, resp, genSeen, delVars, getVars,
                   arg, clientVars>>

SpecPrompt == InitPrompt /\ [][CallBuildContextPrompt]_vars

\* ---------------------------------------------------- the client (App.jsx)
\* The client against a server that answers each request with success or
\* with an error. MaxViews bounds the calls of startNewChat and switchToChat,
\* MaxSends the calls of sendMessage.
MaxViews == 3

MaxSends == 2

\* Session ids the server hands out.
ClientChatIds == {1, 2}

serverVars == <<storeVars, pc, req, chatSession, created, chatHistory,
                aiResponse, touchTs, log, resp, genSeen, delVars, getVars,
                arg, ret>>

\* sendMessage up to its fetch: the guard, setIsLoading(true), the user entry,
\* the request body with the currentChatId of this render.
SendMessage ==
    /\ ~isLoading
    /\ sent < MaxSends
    /\ isLoading' = TRUE
    /\ screen' = Append(screen, [role |-> "user", kind |-> "message", view |-> view])
    /\ sending' = [pc |-> "fetch", chatId |-> currentChatId, view |-> view]
    /\ sent' = sent + 1
    /\ UNCHANGED <<serverVars, currentChatId, view, loading>>

\* The response is ok: the bot entry is appended, and currentChatId is set
\* when the currentChatId of the closure is null.
ReplyArrives ==
    /\ sending.pc = "fetch"
    /\ \E c \in ClientChatIds :
        currentChatId' = IF sending.chatId = Null THEN c ELSE currentChatId
    /\ screen' = Append(screen, [role |-> "bot", kind |-> "reply", view |-> sending.view])
    /\ sending' = [sending EXCEPT !.pc = "reload"]
    /\ UNCHANGED <<serverVars, isLoading, view, loading, sent>>

\* await loadChatSessions() returns (it catches its own errors); finally.
ReloadDone ==
    /\ sending.pc = "reload"
    /\ sending' = NoSend
    /\ isLoading' = FALSE
    /\ UNCHANGED <<serverVars, currentChatId, view, screen, loading, sent>>

\* fetch throws or the response is not ok: the warning entry; finally.
ErrorArrives ==
    /\ sending.pc = "fetch"
    /\ screen' = Append(screen, [role |-> "bot", kind |-> "warning", view |-> sending.view])
    /\ sending' = NoSend
    /\ isLoading' = FALSE
    /\ UNCHANGED <<serverVars, currentChatId, view, loading, sent>>

\* startNewChat: no button is disabled while a request is in flight.
StartNewChat ==
    /\ view < MaxViews
    /\ view' = view + 1
    /\ currentChatId' = Null
    /\ screen' = <<Greeting(view + 1)>>
    /\ UNCHANGED <<serverVars, isLoading, sending, loading, sent>>

\* switchToChat up to the fetch of loadChatMessages.
SwitchToChat ==
    /\ view < MaxViews
    /\ loading = NoLoad
    /\ \E c \in ClientChatIds :
        /\ currentChatId' = c
        /\ loading' = [chatId |-> c, view |-> view + 1]
    /\ view' = view + 1
    /\ UNCHANGED <<serverVars, isLoading, screen, sending, sent>>

\* loadChatMessages: setMessages(the stored rows), or the catch.
LoadArrives ==
    /\ loading # NoLoad
    /\ \/ screen' = <<[role |-> "user", kind |-> "stored", view |-> loading.view],
                      [role |-> "bot", kind |-> "stored", view |-> loading.view]>>
       \/ UNCHANGED screen
    /\ loading' = NoLoad
    /\ UNCHANGED <<serverVars, currentChatId, isLoading, view, sending, sent>>

NextClient ==
    \/ SendMessage
    \/ ReplyArrives
    \/ ReloadDone
    \/ ErrorArrives
    \/ StartNewChat
    \/ SwitchToChat
    \/ LoadArrives

SpecClient == Init /\ [][NextClient]_vars

\* ------------------------------------------------ every handler, scheduled
\* One request to each of the four routes over the preloaded store.
NextLive ==
    \/ ChatInvalid("t1")
    \/ ChatLookup("t1")
    \/ ChatNew("t1")
    \/ ChatGetOrCreate("t1")
    \/ ChatSaveUser("t1")
    \/ ChatHistory("t1")
    \/ ChatGenerateAny("t1")
    \/ ChatSaveBot("t1")
    \/ ChatTouch("t1")
    \/ DeleteMessages
    \/ DeleteSession
    \/ GetSessions
    \/ GetSessionsAnswer
    \/ GetMessages
    \/ GetMessagesAnswer

\* A step that resumes a handler after an awaited call.
Continue ==
    \/ ChatGetOrCreate("t1")
    \/ ChatSaveUser("t1")
    \/ ChatHistory("t1")
    \/ ChatGenerateAny("t1")
    \/ ChatSaveBot("t1")
    \/ ChatTouch("t1")
    \/ DeleteSession
    \/ GetSessionsAnswer
    \/ GetMessagesAnswer

\* Every awaited call (a store query, the fetch of the generation endpoint)
\* settles, and the event loop then runs a handler that is ready to resume.
\* The arrival of a request is left to the caller.
Continuations == WF_vars(Continue)

SpecLive == InitLoaded /\ [][NextLive]_vars /\ Continuations

\* ------------------------------------------------------------ properties
Has(seq, x) == \E i \in 1..Len(seq) : seq[i] = x
Count(seq, x) == Cardinality({i \in 1..Len(seq) : seq[i] = x})

\* The request of t was accepted by the validation.
Accepted(t) == pc[t] # "idle" /\ req[t].userId # NoUser /\ req[t].message # NoMsg

\* The step is t's saveMessage and the insert was applied.
Wrote(t) ==
    /\ pc[t] \in {"saveUser", "saveBot"}
    /\ pc'[t] # pc[t]
    /\ Len(messages') = Len(messages) + 1

\* C1 (amended): every accepted POST /chat without a chatId whose session
\* insert succeeds resolves to a session that this very turn inserted, with
\* exactly one call of getOrCreateChatSession, whether or not the user already
\* has a session; no two turns share such a session.
C1_NoChatIdAlwaysCreates ==
    \A t \in Turns :
        (Accepted(t) /\ req[t].chatId = Null /\ chatSession[t] # Null)
        => /\ created[t] = chatSession[t]
           /\ \A o \in Turns \ {t} : created[o] # created[t]
           /\ Count(log[t], "getOrCreate") = 1

\* Two completed turns of one user without chatId, the second inserted after
\* the first had touched its session: two distinct sessions of that user.
C1_Witness ==
    /\ pc["t1"] = "done" /\ pc["t2"] = "done"
    /\ resp["t1"].status = 200 /\ resp["t2"].status = 200
    /\ req["t1"].userId = req["t2"].userId
    /\ req["t1"].chatId = Null /\ req["t2"].chatId = Null
    /\ created["t1"] \in DOMAIN sessions /\ created["t2"] \in DOMAIN sessions
    /\ created["t1"] # created["t2"]
    /\ sessions[created["t1"]].created_at < sessions[created["t1"]].updated_at
    /\ sessions[created["t1"]].updated_at < sessions[created["t2"]].created_at

\* C1 (as stated): a POST /chat without chatId by a user whose earlier POST
\* without chatId has completed reuses that user's most-recently-updated
\* session and creates no further session.
C1_SecondTurnReuses ==
    [][\A t \in Turns :
        (/\ pc[t] = "idle" /\ pc'[t] # "idle"
         /\ req'[t].userId # NoUser /\ req'[t].message # NoMsg
         /\ req'[t].chatId = Null
         /\ chatSession'[t] # Null
         /\ \A o \in Turns \ {t} :
                /\ pc[o] = "done" /\ resp[o].status = 200
                /\ req[o].userId = req'[t].userId /\ req[o].chatId = Null
         /\ MostRecentSession(sessions, req'[t].userId) # Null)
        => /\ chatSession'[t] = MostRecentSession(sessions, req'[t].userId)
           /\ nextId' = nextId]_vars

\* The n most recent messages of a session, oldest first.
MostRecent(msgs, chatId, n) ==
    SelectColumns(SliceLast(OrderByCreatedAt(MessagesOf(msgs, chatId)), n))

\* C2 (as stated): the history a turn reads is the (up to) 10 messages of the
\* resolved session with the latest created_at, oldest first (or nothing, when
\* the read fails).
C2_HistoryIsMostRecent ==
    [][\A t \in Turns :
        (pc[t] = "history" /\ pc'[t] = "generate")
        => chatHistory'[t] \in
               {<<>>, MostRecent(messages, chatSession[t], HistoryLimit)}]_vars

\* C3 (as stated): the first turn of a newly created session answers
\* contextUsed = false.
C3_FirstTurnHasNoContext ==
    \A t \in Turns :
        (resp[t].status = 200 /\ created[t] # Null) => resp[t].contextUsed = FALSE

\* C4 (amended): a turn whose chatId resolved creates no session, answers a
\* success with that chatId, and resolved only a session its user owns; a turn
\* whose chatId did not resolve uses a session it inserted itself; and every
\* message a turn writes goes under the session it resolved, never under a
\* supplied chatId that did not resolve.
C4_ResolvedState ==
    \A t \in Turns :
        (Accepted(t) /\ req[t].chatId # Null /\ pc[t] # "getOrCreate")
        => /\ chatSession[t] = req[t].chatId
              => /\ created[t] = Null
                 /\ ~Has(log[t], "getOrCreate")
                 /\ chatSession[t] \in DOMAIN sessions
                        => sessions[chatSession[t]].user_id = req[t].userId
                 /\ resp[t].status = 200 => resp[t].chatId = req[t].chatId
           /\ chatSession[t] # req[t].chatId
              => chatSession[t] = Null \/ created[t] = chatSession[t]

C4_WriteTarget ==
    \A t \in Turns :
        Wrote(t) =>
            /\ messages'[Len(messages')].chat_id = chatSession[t]
            /\ SubSeq(messages', 1, Len(messages)) = messages
            /\ sessions' = sessions

C4_ChatIdScopedToUser == []C4_ResolvedState /\ [][C4_WriteTarget]_vars

\* A successful turn on a supplied chatId, its two messages stored under it.
C4_Witness ==
    \E t \in Turns :
        /\ pc[t] = "done" /\ resp[t].status = 200
        /\ req[t].chatId # Null /\ resp[t].chatId = req[t].chatId
        /\ created[t] = Null
        /\ \E i, j \in 1..Len(messages) :
            /\ i < j
            /\ messages[i].chat_id = req[t].chatId
            /\ messages[i].role = "user" /\ messages[i].content = req[t].message
            /\ messages[j].chat_id = req[t].chatId
            /\ messages[j].role = "bot"

\* C4 (as stated): a turn whose chatId resolved writes both of its messages.
C4_BothMessagesWritten ==
    \A t \in Turns :
        (pc[t] = "done" /\ Accepted(t) /\ req[t].chatId # Null
            /\ chatSession[t] = req[t].chatId)
        => /\ created[t] = Null
           /\ Has(log[t], "saveUser")
           /\ Has(log[t], "saveBot")

\* C5: a POST /chat whose userId or message is missing or empty is answered
\* 400 at once: the handler makes no store call and no generation call, and
\* the step changes neither table.
C5_RejectedState ==
    \A t \in Turns :
        (pc[t] # "idle" /\ (req[t].userId = NoUser \/ req[t].message = NoMsg))
        => /\ pc[t] = "done"
           /\ resp[t] = BadRequest
           /\ log[t] = <<"respond">>
           /\ chatSession[t] = Null /\ created[t] = Null
           /\ genSeen[t] = NoGen

C5_RejectedStep ==
    \A t \in Turns :
        (pc[t] = "idle" /\ pc'[t] # "idle"
            /\ (req'[t].userId = NoUser \/ req'[t].message = NoMsg))
        => UNCHANGED storeVars

C5_InvalidRequestRejected == []C5_RejectedState /\ [][C5_RejectedStep]_vars

\* A request with a user, a chatId of a stored session and an empty message
\* was answered 400 while the store holds messages.
C5_Witness ==
    \E t \in Turns :
        /\ resp[t].status = 400
        /\ req[t].userId # NoUser /\ req[t].message = NoMsg
        /\ req[t].chatId \in DOMAIN sessions
        /\ messages # <<>>

\* C6 (as stated): when DELETE /chat-sessions/:chatId answers success the
\* store holds no message with that chat_id and no session row with that id.
C6_DeleteLeavesNothing ==
    [][(dpc = "deleteSession" /\ dresp'.status = 200)
        => /\ MessagesOf(messages', dreq) = <<>>
           /\ dreq \notin DOMAIN sessions']_vars

\* C7 (as stated): every stored message refers to a stored session, and a
\* turn never writes a message under a session that is gone.
C7_MessagesHaveSessions ==
    [][\A t \in Turns : Wrote(t) => chatSession[t] \in DOMAIN sessions']_vars

\* C8 (as stated): a top candidate with finish reason SAFETY is not answered
\* with the generic 500 internal error.
C8_SafetyIsNotInternalError ==
    \A t \in Turns :
        (pc[t] = "done" /\ genSeen[t].fault = "none" /\ genSeen[t].ok
            /\ genSeen[t].cand = "SAFETY")
        => ~(resp[t].status = 500 /\ resp[t].error = "Internal server error")

\* The generation failures: the call throws, a non-success status, a missing
\* or empty candidate list, a safety-filtered top candidate.
GenFailed(r) ==
    \/ r.fault \in {"network", "badjson"}
    \/ /\ r.fault = "none"
       /\ ~r.ok \/ r.cand \in {"missing", "empty", "SAFETY"}

\* C9: every generation failure ends the turn with an error response that
\* carries a message; the turn makes no bot-message write and no session
\* touch, and the failing step changes neither table.
C9_AbortedState ==
    \A t \in Turns :
        GenFailed(genSeen[t])
        => /\ pc[t] = "done"
           /\ resp[t].status = 500
           /\ resp[t].details # ""
           /\ (genSeen[t].fault = "none" /\ genSeen[t].ok)
                  => resp[t].details =
                        IF genSeen[t].cand = "SAFETY"
                        THEN "Content was filtered for safety reasons. Please try rephrasing your message."
                        ELSE "No response generated by Gemini API"
           /\ ~Has(log[t], "saveBot") /\ ~Has(log[t], "touch")
           /\ Count(log[t], "generate") = 1
           /\ log[t][Len(log[t])] = "respond"

C9_AbortedStep ==
    \A t \in Turns :
        (pc[t] = "generate" /\ GenFailed(genSeen'[t])) => UNCHANGED storeVars

C9_GenerationFailureAborts == []C9_AbortedState /\ [][C9_AbortedStep]_vars

\* A turn whose candidate list came back empty: its user message is stored,
\* no bot message follows it, and the caller got the message.
C9_Witness ==
    \E t \in Turns :
        /\ genSeen[t].fault = "none" /\ genSeen[t].ok /\ genSeen[t].cand = "empty"
        /\ resp[t].details = "No response generated by Gemini API"
        /\ messages # <<>>
        /\ messages[Len(messages)].chat_id = chatSession[t]
        /\ messages[Len(messages)].role = "user"
        /\ messages[Len(messages)].content = req[t].message

\* C10: a turn for which getOrCreateChatSession returned no session is
\* answered 500 at once, having made no generation call and no message write.
C10_NoSessionAborts ==
    \A t \in Turns :
        (Has(log[t], "getOrCreate") /\ chatSession[t] = Null)
        => /\ pc[t] = "done"
           /\ resp[t] = SessionFailure
           /\ genSeen[t] = NoGen
           /\ ~Has(log[t], "generate")
           /\ ~Has(log[t], "saveUser") /\ ~Has(log[t], "saveBot")
           /\ ~Has(log[t], "touch")

\* A turn whose lookup and whose insert both failed.
C10_Witness ==
    \E t \in Turns :
        /\ log[t] = <<"lookup", "getOrCreate", "respond">>
        /\ resp[t] = SessionFailure
        /\ req[t].chatId \in DOMAIN sessions
        /\ sessions[req[t].chatId].user_id = req[t].userId

\* C11: a turn that resolved a session ends without a success response only
\* when its generation call failed; whichever of the user-message write, the
\* history read, the bot-message write and the session touch fail, it answers
\* 200 with the generated reply and the id of the session it resolved.
C11_StoreFailuresAreSwallowed ==
    \A t \in Turns :
        (pc[t] = "done" /\ chatSession[t] # Null)
        => /\ genSeen[t] # NoGen
           /\ GenFailed(genSeen[t])
              \/ /\ resp[t].status = 200
                 /\ resp[t].reply =
                        IF genSeen[t].cand = "text" THEN AiText ELSE FallbackReply
                 /\ resp[t].chatId = chatSession[t]
                 /\ Count(log[t], "respond") = 1

\* A lone turn answered 200 although neither of its messages is stored and
\* its session still carries the updated_at of its creation: both writes and
\* the touch failed.
C11_Witness ==
    \E t \in Turns :
        /\ resp[t].status = 200
        /\ resp[t].contextUsed = FALSE
        /\ dpc = "idle"
        /\ \A o \in Turns \ {t} : pc[o] = "idle"
        /\ messages = <<>>
        /\ resp[t].chatId \in DOMAIN sessions
        /\ sessions[resp[t].chatId].updated_at = sessions[resp[t].chatId].created_at

Answered(r) == r.status \in {200, 400, 500}

\* A request is done exactly when it carries a response.
C12_DoneIffAnswered ==
    /\ \A t \in Turns : /\ pc[t] = "done" <=> Answered(resp[t])
                        /\ pc[t] # "done" => resp[t] = NoResp
                        /\ Count(log[t], "respond") = IF pc[t] = "done" THEN 1 ELSE 0
    /\ dpc = "done" <=> Answered(dresp)
    /\ dpc # "done" => dresp = NoResp
    /\ gpc = "done" <=> Answered(gresp)
    /\ gpc # "done" => gresp = NoResp

\* A response, once sent, is never replaced by another.
C12_AnsweredOnce ==
    /\ \A t \in Turns : resp[t] # NoResp => resp'[t] = resp[t]
    /\ dresp # NoResp => dresp' = dresp
    /\ gresp # NoResp => gresp' = gresp

\* C12: every request to POST /chat, GET /chat-sessions/:userId,
\* GET /chat-messages/:chatId and DELETE /chat-sessions/:chatId that the
\* server has taken up is eventually answered, on every path through store
\* errors, generation errors and malformed generation responses, and it is
\* answered exactly once.
C12_EveryRequestAnsweredOnce ==
    /\ []C12_DoneIffAnswered
    /\ [][C12_AnsweredOnce]_vars
    /\ \A t \in Turns : (pc[t] # "idle") ~> (pc[t] = "done" /\ Answered(resp[t]))
    /\ (dpc # "idle") ~> (dpc = "done" /\ Answered(dresp))
    /\ (gpc # "idle") ~> (gpc = "done" /\ Answered(gresp))

\* All three requests answered on failure paths: a generation response that
\* is not JSON, a failed session delete, a failed query.
C12_Witness ==
    /\ pc["t1"] = "done" /\ genSeen["t1"].fault = "badjson"
    /\ resp["t1"].status = 500
    /\ dpc = "done" /\ dresp.status = 500
    /\ gpc = "done" /\ gresp.status = 500

\* The one-character ellipsis U+2026.
EllipsisChar == <<"U+2026">>

\* C13 (as stated): the title of a message of more than 50 characters is its
\* first 50 characters followed by the single ellipsis character.
C13_TitleAsStated ==
    ret # <<>> =>
        ret = IF Len(arg) <= 50 THEN arg ELSE SubSeq(arg, 1, 50) \o EllipsisChar

\* C13: the derived title of a message is the message unchanged when it has
\* at most 50 characters, and its first 50 characters followed by three full
\* stops, 53 characters in all, when it is longer.
C13_TitleTruncation ==
    ret # <<>> =>
        IF Len(arg) <= 50 THEN ret = arg
        ELSE /\ Len(ret) = 53
             /\ SubSeq(ret, 1, 50) = SubSeq(arg, 1, 50)
             /\ SubSeq(ret, 51, 53) = <<".", ".", ".">>

\* The title of a message of 51 characters has been derived.
C13_Witness == ret # <<>> /\ Len(arg) = 51 /\ Len(ret) = 53

\* C14: for a non-empty history the prompt renders the last 10 entries (all
\* of them when there are fewer) in their original order, each labelled
\* "User" when its role is "user" and "Assistant" for any other role, and
\* ends with the current message verbatim; for an empty history it renders
\* no entry and ends with the current message.
C14_PromptRendersWindow ==
    ret # <<>> =>
        LET h == arg.history
            n == Len(h)
            shown == IF n > 10 THEN 10 ELSE n
        IN  /\ ret[Len(ret)] = arg.message
            /\ ret[1] = "preamble"
            /\ IF n = 0
               THEN Len(ret) = 3 /\ ret[2] = "plain-instruction"
               ELSE /\ Len(ret) = shown + 4
                    /\ ret[2] = "history-header"
                    /\ ret[shown + 3] = "context-instruction"
                    /\ \A i \in 1..shown :
                        ret[2 + i] =
                            <<IF h[n - shown + i].role = "user"
                              THEN "User" ELSE "Assistant",
                              h[n - shown + i].content>>

\* A prompt built from 12 rows whose last 10 include a row whose role is
\* neither "user" nor "bot".
C14_Witness ==
    /\ ret # <<>>
    /\ Len(arg.history) = 12
    /\ \E i \in 3..12 : arg.history[i].role = "system"
    /\ Len(ret) = 14

\* C15 (as stated): the updated_at of a session never decreases, also when
\* two concurrent turns each touch it with the timestamp each took before
\* its update was applied.
C15_UpdatedAtNeverDecreases ==
    [][\A i \in DOMAIN sessions \cap DOMAIN sessions' :
          sessions'[i].updated_at >= sessions[i].updated_at]_vars

\* C16 (as stated): no session is left empty: once a turn that created a
\* session has finished, that session holds at least one message, also when
\* message writes or the generation call failed.
C16_CreatedSessionHoldsMessage ==
    \A t \in Turns :
        (pc[t] = "done" /\ created[t] # Null /\ created[t] \in DOMAIN sessions)
        => \E k \in 1..Len(messages) : messages[k].chat_id = created[t]

\* A step of the delete handler.
DeleteStep == dpc' # dpc

\* Rows other than the session dreq' and the messages under it stay.
C17_OthersUntouched ==
    /\ \A i \in DOMAIN sessions \ {dreq'} :
           i \in DOMAIN sessions' /\ sessions'[i] = sessions[i]
    /\ SelectSeq(messages', LAMBDA m : m.chat_id # dreq')
           = SelectSeq(messages, LAMBDA m : m.chat_id # dreq')
    /\ DOMAIN sessions' \subseteq DOMAIN sessions
    /\ Len(messages') <= Len(messages)

\* A session row goes only when its owner sent the request.
C17_OnlyForOwner ==
    (dreq' \in DOMAIN sessions /\ dreq' \notin DOMAIN sessions')
        => sessions[dreq'].user_id = dsender'

\* C17 (as stated): DELETE /chat-sessions/:chatId removes only the session
\* with that id and the messages with that chat_id, leaves every other
\* session and message unchanged, and removes a session only on behalf of
\* the user who owns it.
C17_DeleteIsTenantScoped ==
    [][DeleteStep => (C17_OthersUntouched /\ C17_OnlyForOwner)]_vars

\* The calls of a turn from the user-message write to the response.
TurnOrder == <<"saveUser", "history", "generate", "saveBot", "touch", "respond">>

\* How a turn comes to its session: found by chatId, created, or created
\* after a chatId that did not resolve.
Resolutions == {<<"lookup">>, <<"getOrCreate">>, <<"lookup", "getOrCreate">>}

\* C18: a turn answered with success made its calls in this order: session
\* resolved or created, user message written, history read, generation
\* call, bot message written, updated_at touched, response sent; and in no
\* turn is the history read before the user-message write was attempted.
C18_TurnOrder ==
    \A t \in Turns :
        /\ resp[t].status = 200 => \E p \in Resolutions : log[t] = p \o TurnOrder
        /\ \A i \in 1..Len(log[t]) :
               log[t][i] = "history" => \E j \in 1..(i - 1) : log[t][j] = "saveUser"
        /\ \A i \in 1..Len(log[t]) :
               log[t][i] = "saveUser" =>
                   \E j \in 1..(i - 1) : log[t][j] \in {"lookup", "getOrCreate"}

\* A turn that found no session under its chatId, created one and was
\* answered with success.
C18_Witness ==
    \E t \in Turns :
        /\ resp[t].status = 200
        /\ log[t] = <<"lookup", "getOrCreate">> \o TurnOrder

\* A store call of a turn in flight is never held back by another turn.
C19_NoTurnWaits ==
    \A t \in Turns :
        /\ pc[t] = "saveUser" => ENABLED ChatSaveUser(t)
        /\ pc[t] = "history" => ENABLED ChatHistory(t)
        /\ pc[t] = "saveBot" => ENABLED ChatSaveBot(t)
        /\ pc[t] = "touch" => ENABLED ChatTouch(t)

\* A history read returns the first rows stored under the session at that
\* moment, bot rows and the rows of a turn still in flight included.
C19_ReadSeesStore ==
    \A t \in Turns :
        (pc[t] = "history" /\ pc'[t] = "generate" /\ chatHistory'[t] # <<>>)
        => LET rows == SelectSeq(messages, LAMBDA m : m.chat_id = chatSession[t])
               n == IF Len(rows) < 10 THEN Len(rows) ELSE 10
           IN  /\ Len(chatHistory'[t]) = n
               /\ \A k \in 1..n :
                      /\ chatHistory'[t][k].role = rows[k].role
                      /\ chatHistory'[t][k].content = rows[k].content

\* C19: two turns on one session are not serialized: no store call of a turn
\* waits for the other turn, and a history read returns whatever the session
\* holds at that moment, so the messages of the two turns interleave and a
\* turn's prompt can hold the other turn's user message without its reply.
C19_TurnsNotSerialized == []C19_NoTurnWaits /\ [][C19_ReadSeesStore]_vars

\* Turns t and o on one session, both past their bot-message write: the
\* session holds user(t), user(o), reply(o), reply(t) in this order, and the
\* prompt of o renders the user message of t and no reply.
C19_Witness ==
    \E t \in Turns : \E o \in Turns \ {t} :
        /\ pc[t] = "touch" /\ pc[o] = "touch"
        /\ chatSession[t] # Null /\ chatSession[o] = chatSession[t]
        /\ touchTs[o] < touchTs[t]
        /\ LET rows == MessagesOf(messages, chatSession[t])
               prompt == buildContextPrompt(req[o].message, chatHistory[o])
           IN  /\ Len(rows) = 4
               /\ rows[1].role = "user" /\ rows[1].content = req[t].message
               /\ rows[2].role = "user" /\ rows[2].content = req[o].message
               /\ rows[3].role = "bot" /\ rows[4].role = "bot"
               /\ rows[3].created_at < touchTs[o] /\ touchTs[o] <= rows[4].created_at
               /\ Len(prompt) = 6
               /\ prompt[3] = <<"User", req[t].message>>
               /\ prompt[4] = <<"User", req[o].message>>

CredentialMessage == "Invalid or expired API key. Please check your Gemini API key."
QuotaMessage == "API quota exceeded. Please check your Gemini API usage."
NoResponseMessage == "No response generated by Gemini API"
FilteredMessage ==
    "Content was filtered for safety reasons. Please try rephrasing your message."

SpecificMessages ==
    {CredentialMessage, QuotaMessage, NoResponseMessage, FilteredMessage}

\* C20: a turn whose generation call came back carries, by class of failure:
\* the credential message for a non-success status whose error message holds
\* "API key" (also when it holds "quota" too), the quota message for one that
\* holds "quota" and not "API key", a message that is none of the four named
\* ones for any other non-success status, the no-response message for a
\* missing or empty candidate list, and the content-filtered message for a
\* SAFETY finish reason; a non-success status decides before the candidates
\* are looked at.
C20_FailureMessages ==
    \A t \in Turns :
        (pc[t] = "done" /\ genSeen[t] # NoGen /\ genSeen[t].fault = "none")
        => LET r == genSeen[t]
           IN  /\ ~r.ok =>
                     /\ resp[t].status = 500
                     /\ resp[t].details =
                            IF r.err \in {"API key", "API key and quota"}
                            THEN CredentialMessage
                            ELSE IF r.err = "quota" THEN QuotaMessage
                            ELSE resp[t].details
                     /\ r.err \in {"absent", "nomessage", "emptymessage", "other"}
                            => /\ resp[t].details \notin SpecificMessages
                               /\ resp[t].details # ""
               /\ (r.ok /\ r.cand \in {"missing", "empty"}) =>
                     resp[t].status = 500 /\ resp[t].details = NoResponseMessage
               /\ (r.ok /\ r.cand = "SAFETY") =>
                     resp[t].status = 500 /\ resp[t].details = FilteredMessage

\* A non-success answer whose error message holds both "API key" and
\* "quota" and which carries no candidate list got the credential message.
C20_Witness ==
    \E t \in Turns :
        /\ pc[t] = "done"
        /\ genSeen[t] # NoGen /\ genSeen[t].fault = "none" /\ ~genSeen[t].ok
        /\ genSeen[t].err = "API key and quota"
        /\ genSeen[t].cand = "missing"
        /\ resp[t].details = CredentialMessage

\* The generation call answered with a top candidate that is not filtered
\* and carries no text.
NoText(t) ==
    /\ genSeen[t] # NoGen
    /\ genSeen[t].fault = "none" /\ genSeen[t].ok /\ genSeen[t].cand = "notext"

TheFallback == <<"Sorry, I couldn't generate a response.">>

C21_FallbackAnswered ==
    \A t \in Turns :
        NoText(t) =>
            /\ pc[t] \in {"saveBot", "touch", "done"}
            /\ pc[t] \in {"saveBot", "touch"} => aiResponse[t] = TheFallback
            /\ pc[t] = "done" =>
                  /\ resp[t].status = 200
                  /\ resp[t].reply = TheFallback
                  /\ Count(log[t], "saveBot") = 1

C21_FallbackWritten ==
    \A t \in Turns :
        (NoText(t) /\ Wrote(t)) =>
            /\ messages'[Len(messages')].role = "bot"
            /\ messages'[Len(messages')].content = TheFallback
            /\ messages'[Len(messages')].chat_id = chatSession[t]

\* C21: when generation succeeds with a non-filtered top candidate whose
\* text is absent or empty, the turn does not fail: the fixed fallback string
\* is the reply, it is what the turn writes as the bot message (stored
\* whenever that write succeeds), and it is returned in a success response.
C21_FallbackReply == []C21_FallbackAnswered /\ [][C21_FallbackWritten]_vars

\* A finished turn without candidate text: 200 with the fallback, which is
\* also the last message stored under its session.
C21_Witness ==
    \E t \in Turns :
        /\ NoText(t) /\ pc[t] = "done" /\ resp[t].status = 200
        /\ resp[t].reply = TheFallback
        /\ LET rows == MessagesOf(messages, resp[t].chatId)
           IN  /\ Len(rows) > 0
               /\ rows[Len(rows)].role = "bot"
               /\ rows[Len(rows)].content = TheFallback

\* C21 (as stated): a finished turn without candidate text has the fallback
\* string stored as a bot message of its session.
C21_FallbackStored ==
    \A t \in Turns :
        (NoText(t) /\ pc[t] = "done" /\ dpc = "idle") =>
            \E k \in 1..Len(messages) :
                /\ messages[k].chat_id = resp[t].chatId
                /\ messages[k].role = "bot"
                /\ messages[k].content = TheFallback

\* C22: no call of a turn is made twice, whatever fails: a turn makes at most
\* one session lookup, one session creation, one user-message write, one
\* history read, one generation call, one bot-message write and one touch;
\* the store holds at most one user message per turn, at most one bot
\* message per generation call answered, and at most one session per turn.
C22_NoRetries ==
    /\ \A t \in Turns :
        /\ \A c \in {"lookup", "getOrCreate", "saveUser", "history", "generate",
                     "saveBot", "touch", "respond"} : Count(log[t], c) <= 1
        /\ Cardinality({k \in 1..Len(messages) :
               messages[k].role = "user" /\ messages[k].content = MsgOf(t)}) <= 1
    /\ Cardinality({k \in 1..Len(messages) : messages[k].role = "bot"})
           <= Cardinality({t \in Turns : Has(log[t], "saveBot")})
    /\ nextId - 1 <= Cardinality({t \in Turns : Has(log[t], "getOrCreate")})

\* A finished turn whose session creation succeeded, whose two message
\* writes failed and which made each of its calls once.
C22_Witness ==
    \E t \in Turns :
        /\ pc[t] = "done" /\ resp[t].status = 200
        /\ messages = <<>> /\ dpc = "idle"
        /\ \A o \in Turns \ {t} : pc[o] = "idle"
        /\ log[t] = <<"getOrCreate", "saveUser", "history", "generate",
                      "saveBot", "touch", "respond">>

\* Turn t was answered with a generation failure and its user message is
\* stored under session c.
Unanswered(t, c) ==
    /\ pc[t] = "done" /\ GenFailed(genSeen[t])
    /\ chatSession[t] = c
    /\ \E k \in 1..Len(messages) :
           /\ messages[k].chat_id = c
           /\ messages[k].role = "user"
           /\ messages[k].content = req[t].message

\* C23 (as stated): a turn that aborts on a generation failure after its
\* user message was written leaves that message and its session in the
\* store, and a turn that afterwards reads the history of that session
\* finds that user message in it.
C23_LaterTurnSeesUnanswered ==
    [][/\ \A t \in Turns :
            (pc[t] = "generate" /\ GenFailed(genSeen'[t])) => UNCHANGED storeVars
       /\ \A t \in Turns : \A o \in Turns \ {t} :
          (/\ Unanswered(t, chatSession[o])
           /\ pc[o] = "history" /\ pc'[o] = "generate"
           /\ chatHistory'[o] # <<>>)
          => /\ Unanswered(t, chatSession[o])'
             /\ \E k \in 1..Len(chatHistory'[o]) :
                    /\ chatHistory'[o][k].role = "user"
                    /\ chatHistory'[o][k].content = req[t].message]_vars

\* The step that ends the fetch of sendMessage.
Answer == sending.pc = "fetch" /\ sending'.pc # "fetch"

\* One bot entry per message sent, no request while isLoading.
C24_OneEntryPerSend ==
    /\ Answer => /\ Len(screen') = Len(screen) + 1
                 /\ screen'[Len(screen')].role = "bot"
                 /\ SubSeq(screen', 1, Len(screen)) = screen
    /\ sent' # sent => ~isLoading /\ isLoading'
    /\ sending'.pc = "idle" <=> ~isLoading'

\* The entry goes to the conversation the message was sent from.
C24_SameConversation == Answer => sending.view = view

\* A turn sent from a conversation that is no longer on screen leaves
\* currentChatId alone.
C24_ChatIdKept == (Answer /\ sending.view # view) => currentChatId' = currentChatId

\* C24 (as stated): in the client every message sent gets exactly one
\* bot-role entry, no second request is issued while isLoading, and when the
\* user starts a new chat or switches chat while a request is in flight the
\* reply is not appended to another conversation and currentChatId is not
\* overwritten by the chatId of the turn in flight.
C24_ClientKeepsConversations ==
    [][C24_OneEntryPerSend /\ C24_SameConversation /\ C24_ChatIdKept]_vars

====
